---------------------------- MODULE Spec2Model ----------------------------
(***************************************************************************)
(* The API-key lifecycle of hello_actix: issuance (store_api_key),         *)
(* revocation (revoke_api_key), the cache rebuild (load_api_keys), the     *)
(* access check (is_key_allowed_access) behind the request validator, the  *)
(* master-key file and the two SQLite tables.                              *)
(*                                                                         *)
(* Every request handler runs as a process p of Procs, one step per        *)
(* file, database or lock operation of the code, so that the handlers of   *)
(* several worker threads interleave as they do in the server. What a      *)
(* handler computes on its own values before its first such operation is   *)
(* part of that step. The random source and the write of master.key are    *)
(* taken not to fail.                                                      *)
(*                                                                         *)
(* Spec is the key lifecycle across restarts of the server. RequestSpec    *)
(* adds the handlers of the requests under /api and a database that can    *)
(* fail at the SELECT of load_api_keys. LockSpec is one run of the server  *)
(* with the waiting for the lock of API_KEYS and the statement of          *)
(* revoke_api_key as steps of their own, under fairness. StatsSpec is the  *)
(* usage counters of main.rs and their handlers.                           *)
(***************************************************************************)
EXTENDS Integers, Sequences, FiniteSets, TLC

(* ------------------------------ bounds --------------------------------- *)
\* the tokens create_api_key can draw before no further key is issued
NumTokens == 2

\* the requests the usage counters count before the model stops counting
MaxCount == 2

\* worker threads handling requests at the same time
Procs == {"w1", "w2"}
\* the identities of the tokens, and of the salt drawn with each
TokenIds == 1..NumTokens
\* the values SystemRandom can draw for a master key: one for each thread
\* that can be drawing a key at the same time
KeyIds == {1, 2}
\* the instants Utc::now() can return
Instants == {1}

(* ----------------------------- constants ------------------------------- *)
SALT_LENGTH == 16
MASTER_KEY_LENGTH == 32

Null == [kind |-> "null"]
NoFile == [kind |-> "nofile"]
None == "none"

(* ------------------------- byte and text values ------------------------ *)
\* a String holding a token: the text create_api_key returns
Text(id) == [kind |-> "text", id |-> id]
\* plaintext.as_bytes() and String::from_utf8: the bytes of a text
as_bytes(s) == [kind |-> "utf8", id |-> s.id]
from_utf8(b) == [kind |-> "text", id |-> b.id]
\* the bytes rng.fill writes: n random bytes with value id
RandomBytes(id, n) == [kind |-> "random", id |-> id, len |-> n]
\* what decoding a string that was not produced by BASE64.encode yields
Garbage == [kind |-> "garbage", len |-> 0]
DecryptError == [kind |-> "error"]

\* BASE64.encode / BASE64.decode (STANDARD_NO_PAD)
BASE64_encode(b) == [kind |-> "b64", bytes |-> b]
BASE64_decode(s) == IF s.kind = "b64" THEN s.bytes ELSE Garbage

\* a DateTime<Utc> as stored in a TEXT column
Times == {[kind |-> "time", at |-> n] : n \in Instants}
TokenStrings == {Text(id) : id \in TokenIds}

(* --------------------------- envelope cipher --------------------------- *)
\* key.seal_in_place_append_tag(nonce = 0, aad = salt, plaintext): the
\* ciphertext and tag are bound to the key, the associated data and the text
seal(key, salt, plaintext) ==
    [kind |-> "sealed", key |-> key, aad |-> salt, pt |-> as_bytes(plaintext)]

\* key.open_in_place(nonce = 0, aad = salt, in_out): the tag verifies only
\* under the sealing key and the sealing associated data
open(key, salt, box) ==
    IF box.kind = "sealed" /\ box.key = key /\ box.aad = salt
    THEN box.pt
    ELSE DecryptError

\* encrypt(plaintext, salt), given the key get_or_create_master_key returned
encrypt(key, plaintext, salt) == BASE64_encode(seal(key, salt, plaintext))

\* decrypt(ciphertext, salt), given the key get_or_create_master_key returned
decrypt(key, ciphertext, salt) ==
    LET plaintext == open(key, salt, BASE64_decode(ciphertext))
    IN  IF plaintext = DecryptError THEN DecryptError ELSE from_utf8(plaintext)

\* the token a ciphertext of encrypt was sealed from
TokenOf(ciphertext) == from_utf8(BASE64_decode(ciphertext).pt)

\* the length test of get_or_create_master_key on the decoded key
ValidKey(key) == key.len = MASTER_KEY_LENGTH

(* -------------------------------- state -------------------------------- *)
VARIABLES
    master_key,   \* the content of the file master.key, or NoFile
    api_keys,     \* table api_keys: rows [salt, api_key, revoked_at] by rowid
    usage,        \* table usage: the set of its rows [api_key, endpoint]
    API_KEYS,     \* the cache: a map from token to salt
    writer,       \* the thread holding the write lock of API_KEYS, or None
    readers,      \* the threads holding a read lock of API_KEYS
    pc,           \* where each worker thread is in its handler
    op,           \* the handler each worker thread runs
    token,        \* the token of the request each worker thread handles
    local,        \* the local values of each handler: the key drawn, the
                  \* ciphertext, the salt, the rows selected, the rows read
    before,       \* API_KEYS as it was when the running reload took the lock
    client,       \* per token, what the HTTP clients were told about it
    stats         \* UsageStats: the two counters, each behind its Mutex

vars == <<master_key, api_keys, usage, API_KEYS, writer, readers,
          pc, op, token, local, before, client, stats>>

NoLocal == [key |-> Null, api_key |-> Null, salt |-> Null, rows |-> <<>>,
            read |-> 0]
\* Mutex::new(0): nobody holds it, it is not poisoned, the counter is 0
NewMutex == [holder |-> None, poisoned |-> FALSE, count |-> 0]
\* UsageStats { to_fahrenheit: Mutex::new(0), to_celsius: Mutex::new(0) }
UsageStats == [to_fahrenheit |-> NewMutex, to_celsius |-> NewMutex]
EmptyMap == [t \in {} |-> Null]

Init ==
    /\ master_key = NoFile
    /\ api_keys = <<>>
    /\ usage = {}
    /\ API_KEYS = EmptyMap
    /\ writer = None
    /\ readers = {}
    /\ pc = [p \in Procs |-> "idle"]
    /\ op = [p \in Procs |-> None]
    /\ token = [p \in Procs |-> Null]
    /\ local = [p \in Procs |-> NoLocal]
    /\ before = EmptyMap
    /\ client = [id \in TokenIds |-> "none"]
    /\ stats = UsageStats


(* ------------------------------ helpers -------------------------------- *)
\* HashMap::insert(key, value)
insert(map, k, v) ==
    [t \in DOMAIN map \cup {k} |-> IF t = k THEN v ELSE map[t]]

\* a handler returns: its thread is free for the next request
Return(p) ==
    /\ pc' = [pc EXCEPT ![p] = "idle"]
    /\ op' = [op EXCEPT ![p] = None]
    /\ token' = [token EXCEPT ![p] = Null]
    /\ local' = [local EXCEPT ![p] = NoLocal]

Goto(p, label) == pc' = [pc EXCEPT ![p] = label]

\* INSERT INTO api_keys (api_key, salt, created_at): revoked_at is not given
\* and takes the column's default, NULL. created_at is written and never read.
StoreApiKey(table, api_key, salt) ==
    Append(table, [salt |-> salt, api_key |-> api_key, revoked_at |-> Null])

\* a revocation that clears the revoked_at of a row that is revoked already
RevokeApiKey_Toggle(table, key, now) ==
    [i \in 1..Len(table) |->
        IF table[i].api_key = key
        THEN [table[i] EXCEPT !.revoked_at = IF @ = Null THEN now ELSE Null]
        ELSE table[i]]

\* UPDATE api_keys SET revoked_at = ?1 WHERE api_key = ?2
RevokeApiKey(table, key, now) ==
    [i \in 1..Len(table) |->
        IF table[i].api_key = key
        THEN [table[i] EXCEPT !.revoked_at = now]
        ELSE table[i]]

\* SELECT api_key, salt FROM api_keys WHERE revoked_at IS NULL, in rowid order
RECURSIVE SelectActive(_)
SelectActive(table) ==
    IF table = <<>> THEN <<>>
    ELSE LET rest == SelectActive(Tail(table))
             row == Head(table)
         IN  IF row.revoked_at = Null
             THEN <<[api_key |-> row.api_key, salt |-> row.salt]>> \o rest
             ELSE rest

\* the key get_or_create_master_key works with, `fresh` being what the
\* random source yields if the file cannot be read
KeyOf(file, fresh) == IF file = NoFile THEN fresh ELSE BASE64_decode(file)
\* the file after get_or_create_master_key
FileAfter(file, fresh) == IF file = NoFile THEN BASE64_encode(fresh) ELSE file

\* the body of the loop of load_api_keys for one row: the token it inserts,
\* or DecryptError when the salt does not decode, the key has the wrong
\* length or the tag does not verify
LoadedToken(key, row) ==
    IF ValidKey(key)
    THEN decrypt(key, row.api_key, BASE64_decode(row.salt))
    ELSE DecryptError

(* ------------------------ GET /api-key: issuance ------------------------ *)
\* the least element of a non-empty set of numbers
Least(S) == CHOOSE n \in S : \A m \in S : n <= m

\* create_api_key: 40 random alphanumeric characters. No two calls return
\* the same text: a call draws a token that is in no row and in no handler,
\* and which of these it draws makes no difference.
Drawn ==
    {id \in TokenIds :
        \/ \E p \in Procs : op[p] = "store" /\ token[p] = Text(id)
        \/ \E i \in 1..Len(api_keys) : TokenOf(api_keys[i].api_key) = Text(id)}

create_api_key == Text(Least(TokenIds \ Drawn))

\* generate_salt: SALT_LENGTH random bytes, drawn afresh with each token
generate_salt(api_key) == RandomBytes(api_key.id, SALT_LENGTH)

\* rng.fill(&mut key): MASTER_KEY_LENGTH random bytes that no other handler
\* has drawn
random_key ==
    RandomBytes(Least(KeyIds \ {local[p].key.id :
                                    p \in {q \in Procs : local[q].key # Null}}),
                MASTER_KEY_LENGTH)

\* request_api_key: create_api_key, then store_api_key: generate_salt and
\* encrypt -> get_or_create_master_key, where the file is read and decoded
BeginStore(p) ==
    /\ pc[p] = "idle"
    /\ master_key # NoFile
    /\ TokenIds \ Drawn # {}
    /\ LET api_key == create_api_key
           key == KeyOf(master_key, Null)
           salt == generate_salt(api_key)
       IN  IF ValidKey(key)
           THEN /\ token' = [token EXCEPT ![p] = api_key]
                /\ local' = [local EXCEPT ![p].api_key =
                                 encrypt(key, api_key, salt),
                                          ![p].salt = salt]
                /\ op' = [op EXCEPT ![p] = "store"]
                /\ Goto(p, "execute")
           ELSE UNCHANGED <<pc, op, token, local>>
    /\ UNCHANGED <<master_key, api_keys, usage, API_KEYS, writer, readers,
                   before, client, stats>>

\* the same, where the file cannot be read: a key is drawn
BeginStoreFirst(p) ==
    /\ pc[p] = "idle"
    /\ master_key = NoFile
    /\ TokenIds \ Drawn # {}
    /\ LET api_key == create_api_key
       IN  /\ token' = [token EXCEPT ![p] = api_key]
           /\ local' = [local EXCEPT ![p].key = KeyOf(master_key, random_key),
                                     ![p].salt = generate_salt(api_key)]
    /\ op' = [op EXCEPT ![p] = "store"]
    /\ Goto(p, "write_master_key")
    /\ UNCHANGED <<master_key, api_keys, usage, API_KEYS, writer, readers,
                   before, client, stats>>

\* std::fs::write(MASTER_KEY_FILE, encoded_key), then encrypt seals under
\* the key it drew
WriteMasterKey(p) ==
    /\ pc[p] = "write_master_key"
    /\ master_key' = BASE64_encode(local[p].key)
    /\ local' = [local EXCEPT ![p].key = Null,
                              ![p].api_key =
                                  encrypt(local[p].key, token[p], local[p].salt)]
    /\ Goto(p, "execute")
    /\ UNCHANGED <<api_keys, usage, API_KEYS, writer, readers,
                   op, token, before, client, stats>>

\* Query::StoreApiKey.execute
ExecuteStore(p) ==
    /\ pc[p] = "execute"
    /\ op[p] = "store"
    /\ api_keys' = StoreApiKey(api_keys, local[p].api_key,
                               BASE64_encode(local[p].salt))
    /\ local' = [local EXCEPT ![p] = NoLocal]
    /\ Goto(p, "load_api_keys")
    /\ UNCHANGED <<master_key, usage, API_KEYS, writer, readers,
                   op, token, before, client, stats>>

\* a failed statement whose error is dropped: the call goes on to reload
ExecuteFail_Reload(p) ==
    /\ pc[p] = "execute"
    /\ local' = [local EXCEPT ![p] = NoLocal]
    /\ Goto(p, "load_api_keys")
    /\ UNCHANGED <<master_key, api_keys, usage, API_KEYS, writer, readers,
                   op, token, before, client, stats>>

\* Query::execute fails (no connection, statement error): `?` returns the
\* error from store_api_key or revoke_api_key
ExecuteFail(p) ==
    /\ pc[p] = "execute"
    /\ Return(p)
    /\ UNCHANGED <<master_key, api_keys, usage, API_KEYS, writer, readers,
                   before, client, stats>>

(* ---------------------- DELETE /api-key: revocation --------------------- *)
\* the strings a client can send as the user id of its credentials: a
\* string that equals no stored value behaves like an unknown token
RevokeInputs ==
    TokenStrings \cup {api_keys[i].api_key : i \in 1..Len(api_keys)}

\* delete_api_key: revoke_api_key(token) up to Query::RevokeApiKey.execute
ExecuteRevoke(p) ==
    /\ pc[p] = "idle"
    /\ \E s \in RevokeInputs, now \in Times :
          /\ token' = [token EXCEPT ![p] = s]
          /\ api_keys' = RevokeApiKey(api_keys, s, now)
    /\ op' = [op EXCEPT ![p] = "revoke"]
    /\ Goto(p, "load_api_keys")
    /\ UNCHANGED <<master_key, usage, API_KEYS, writer, readers,
                   local, before, client, stats>>

\* the same in two steps. delete_api_key: revoke_api_key(token) is called
BeginRevoke(p) ==
    /\ pc[p] = "idle"
    /\ \E s \in RevokeInputs : token' = [token EXCEPT ![p] = s]
    /\ op' = [op EXCEPT ![p] = "revoke"]
    /\ Goto(p, "execute")
    /\ UNCHANGED <<master_key, api_keys, usage, API_KEYS, writer, readers,
                   local, before, client, stats>>

\* Query::RevokeApiKey.execute
ExecuteRevokeStatement(p) ==
    /\ pc[p] = "execute"
    /\ op[p] = "revoke"
    /\ \E now \in Times : api_keys' = RevokeApiKey(api_keys, token[p], now)
    /\ Goto(p, "load_api_keys")
    /\ UNCHANGED <<master_key, usage, API_KEYS, writer, readers,
                   op, token, local, before, client, stats>>

(* ------------------------ load_api_keys: reload ------------------------- *)
\* what the HTTP client learns when store_api_key / revoke_api_key returned
\* Ok: GET /api-key answers with the token, DELETE /api-key with 204
Answered(p) ==
    IF token[p] \in TokenStrings
    THEN [client EXCEPT ![token[p].id] =
             IF op[p] = "store" THEN "held"
             ELSE IF @ = "held" THEN "revoked" ELSE @]
    ELSE client

\* database.get(), conn.prepare or stmt.query fails: `?` returns the error
\* before the lock is asked for
LoadUnavailable(p) ==
    /\ pc[p] = "load_api_keys"
    /\ Return(p)
    /\ UNCHANGED <<master_key, api_keys, usage, API_KEYS, writer, readers,
                   before, client, stats>>

\* a reload that empties the map when it has taken the lock, so that the map
\* ends as the selected rows alone
LoadLock_Clear(p) ==
    /\ pc[p] = "load_api_keys"
    /\ writer = None
    /\ readers = {}
    /\ writer' = p
    /\ before' = API_KEYS
    /\ API_KEYS' = EmptyMap
    /\ local' = [local EXCEPT ![p].rows = SelectActive(api_keys)]
    /\ Goto(p, "load_rows")
    /\ UNCHANGED <<master_key, api_keys, usage, readers, op, token, client,
                   stats>>

\* API_KEYS.write(): the exclusive lock is taken; the statement then reads
\* the rows that are active at its first step
LoadLock(p) ==
    /\ pc[p] = "load_api_keys"
    /\ writer = None
    /\ readers = {}
    /\ writer' = p
    /\ before' = API_KEYS
    /\ local' = [local EXCEPT ![p].rows = SelectActive(api_keys)]
    /\ Goto(p, "load_rows")
    /\ UNCHANGED <<master_key, api_keys, usage, API_KEYS, readers,
                   op, token, client, stats>>

\* one turn of the loop: the row decrypts and its token is inserted
LoadRow(p) ==
    /\ pc[p] = "load_rows"
    /\ local[p].read < Len(local[p].rows)
    /\ LET row == local[p].rows[local[p].read + 1]
           api_key == LoadedToken(KeyOf(master_key, random_key), row)
       IN  /\ api_key # DecryptError
           /\ master_key' = FileAfter(master_key, random_key)
           /\ API_KEYS' = insert(API_KEYS, api_key, BASE64_decode(row.salt))
    /\ local' = [local EXCEPT ![p].read = @ + 1]
    /\ UNCHANGED <<api_keys, usage, writer, readers, pc, op, token,
                   before, client, stats>>

\* an error return of the loop that keeps the write guard
LoadFail_KeepGuard(p) ==
    /\ pc[p] = "load_rows"
    /\ local[p].read < Len(local[p].rows)
    /\ LoadedToken(KeyOf(master_key, random_key),
                   local[p].rows[local[p].read + 1]) = DecryptError
    /\ master_key' = FileAfter(master_key, random_key)
    /\ Return(p)
    /\ UNCHANGED <<api_keys, usage, API_KEYS, writer, readers, before,
                   client, stats>>

\* one turn of the loop: the row fails to decode or decrypt, `?` returns the
\* error and the guard is dropped
LoadFail(p) ==
    /\ pc[p] = "load_rows"
    /\ local[p].read < Len(local[p].rows)
    /\ LoadedToken(KeyOf(master_key, random_key),
                   local[p].rows[local[p].read + 1]) = DecryptError
    /\ master_key' = FileAfter(master_key, random_key)
    /\ writer' = None
    /\ before' = EmptyMap
    /\ Return(p)
    /\ UNCHANGED <<api_keys, usage, API_KEYS, readers, client, stats>>

\* no row is left: Ok(()) and the guard is dropped; the handler answers
LoadDone(p) ==
    /\ pc[p] = "load_rows"
    /\ local[p].read = Len(local[p].rows)
    /\ writer' = None
    /\ before' = EmptyMap
    /\ client' = Answered(p)
    /\ Return(p)
    /\ UNCHANGED <<master_key, api_keys, usage, API_KEYS, readers, stats>>

(* ----------------- /api/...: the validator and the handler -------------- *)
\* a read of the map that does not wait for the writer to drop its guard
ReadLock_NoWait(p) ==
    /\ pc[p] = "idle"
    /\ \E s \in TokenStrings : token' = [token EXCEPT ![p] = s]
    /\ op' = [op EXCEPT ![p] = "request"]
    /\ readers' = readers \cup {p}
    /\ Goto(p, "is_key_allowed_access")
    /\ UNCHANGED <<master_key, api_keys, usage, API_KEYS, writer,
                   local, before, client, stats>>

\* a request under /api arrives with a token as the user id; validator calls
\* is_key_allowed_access: API_KEYS.read()
ReadLock(p) ==
    /\ pc[p] = "idle"
    /\ writer = None
    /\ \E s \in TokenStrings : token' = [token EXCEPT ![p] = s]
    /\ op' = [op EXCEPT ![p] = "request"]
    /\ readers' = readers \cup {p}
    /\ Goto(p, "is_key_allowed_access")
    /\ UNCHANGED <<master_key, api_keys, usage, API_KEYS, writer,
                   local, before, client, stats>>

\* the same request arriving while a reload holds the write guard:
\* API_KEYS.read() blocks the thread
ReadWait(p) ==
    /\ pc[p] = "idle"
    /\ writer # None
    /\ \E s \in TokenStrings : token' = [token EXCEPT ![p] = s]
    /\ op' = [op EXCEPT ![p] = "request"]
    /\ Goto(p, "read")
    /\ UNCHANGED <<master_key, api_keys, usage, API_KEYS, writer, readers,
                   local, before, client, stats>>

\* the write guard is dropped and API_KEYS.read() returns the read guard
ReadGranted(p) ==
    /\ pc[p] = "read"
    /\ writer = None
    /\ readers' = readers \cup {p}
    /\ Goto(p, "is_key_allowed_access")
    /\ UNCHANGED <<master_key, api_keys, usage, API_KEYS, writer,
                   op, token, local, before, client, stats>>

\* is_key_allowed_access: api_keys.contains_key(api_key)
is_key_allowed_access(api_key) == api_key \in DOMAIN API_KEYS

\* validator, Ok(true): the read guard is dropped and the request is passed on
ValidatorOk(p) ==
    /\ pc[p] = "is_key_allowed_access"
    /\ is_key_allowed_access(token[p])
    /\ readers' = readers \ {p}
    /\ Return(p)
    /\ UNCHANGED <<master_key, api_keys, API_KEYS, writer, before, client,
                   stats>>

\* the request is passed on; what its handler does is left to RequestSpec
Allowed(p) ==
    /\ ValidatorOk(p)
    /\ UNCHANGED usage

\* the request is passed on to its handler, to_celsius or to_fahrenheit:
\* Query::RecordApiUsage with the user id of the credentials; both handlers
\* record ApiEndpoint::ToFahrenheit
RecordApiUsage(p) ==
    /\ ValidatorOk(p)
    /\ usage' = usage \cup {[api_key |-> token[p], endpoint |-> "to-fahrenheit"]}

\* a check that enters the token it turned down into the map
Denied_Remember(p) ==
    /\ pc[p] = "is_key_allowed_access"
    /\ ~is_key_allowed_access(token[p])
    /\ API_KEYS' = insert(API_KEYS, token[p], Null)
    /\ readers' = readers \ {p}
    /\ Return(p)
    /\ UNCHANGED <<master_key, api_keys, usage, writer, before, client, stats>>

\* Ok(false): the read guard is dropped and the validator answers 401
Denied(p) ==
    /\ pc[p] = "is_key_allowed_access"
    /\ ~is_key_allowed_access(token[p])
    /\ readers' = readers \ {p}
    /\ Return(p)
    /\ UNCHANGED <<master_key, api_keys, usage, API_KEYS, writer,
                   before, client, stats>>

(* ------------- main.rs: the usage counters and their handlers ----------- *)
\* the fields of UsageStats
Counters == {"to_fahrenheit", "to_celsius"}

\* to_celsius / to_fahrenheit: the spawned task locks the counter of its
\* endpoint. A lock() of a mutex another thread holds waits until it is
\* free; lock().unwrap() of a poisoned mutex panics and the task ends.
CountLock(p) ==
    /\ pc[p] = "idle"
    /\ \E m \in Counters :
          /\ stats[m].holder = None
          /\ ~stats[m].poisoned
          /\ stats[m].count < MaxCount
          /\ stats' = [stats EXCEPT ![m].holder = p]
          /\ op' = [op EXCEPT ![p] = m]
    /\ Goto(p, "count")
    /\ UNCHANGED <<master_key, api_keys, usage, API_KEYS, writer, readers,
                   token, local, before, client>>

\* *count += 1, and the guard is dropped when the task ends
CountAdd(p) ==
    /\ pc[p] = "count"
    /\ stats' = [stats EXCEPT ![op[p]].count = @ + 1,
                              ![op[p]].holder = None]
    /\ Return(p)
    /\ UNCHANGED <<master_key, api_keys, usage, API_KEYS, writer, readers,
                   before, client>>

\* usage_statistics and reset_usage_statistics, their first statement:
\* let mut fahrenheit_count = stats.to_fahrenheit.lock().unwrap()
FirstLock(p) ==
    /\ pc[p] = "idle"
    /\ stats.to_fahrenheit.holder = None
    /\ ~stats.to_fahrenheit.poisoned
    /\ \E handler \in {"usage_statistics", "reset_usage_statistics"} :
          op' = [op EXCEPT ![p] = handler]
    /\ stats' = [stats EXCEPT !.to_fahrenheit.holder = p]
    /\ Goto(p, "lock_again")
    /\ UNCHANGED <<master_key, api_keys, usage, API_KEYS, writer, readers,
                   token, local, before, client>>

\* their second statement: let mut celsius_count =
\* stats.to_fahrenheit.lock().unwrap(), on the mutex whose guard
\* fahrenheit_count holds. std::sync::Mutex leaves this case open, except
\* that the call does not return: the thread waits for itself for ever ...
SecondLockDeadlock(p) ==
    /\ pc[p] = "lock_again"
    /\ stats.to_fahrenheit.holder = p
    /\ Goto(p, "deadlock")
    /\ UNCHANGED <<master_key, api_keys, usage, API_KEYS, writer, readers,
                   op, token, local, before, client, stats>>

\* ... or lock() panics: the handler unwinds without a response, and the
\* guard fahrenheit_count, dropped while panicking, poisons the mutex. The
\* statements after the second lock() are reached in neither case.
SecondLockPanic(p) ==
    /\ pc[p] = "lock_again"
    /\ stats.to_fahrenheit.holder = p
    /\ stats' = [stats EXCEPT !.to_fahrenheit.holder = None,
                              !.to_fahrenheit.poisoned = TRUE]
    /\ Return(p)
    /\ UNCHANGED <<master_key, api_keys, usage, API_KEYS, writer, readers,
                   before, client>>

(* ------------------------------ the process ----------------------------- *)
\* the server stops and main runs again: the files stay, the memory is new
Restart ==
    /\ API_KEYS' = EmptyMap
    /\ writer' = None
    /\ readers' = {}
    /\ before' = EmptyMap
    /\ pc' = [p \in Procs |-> "idle"]
    /\ op' = [p \in Procs |-> None]
    /\ token' = [p \in Procs |-> Null]
    /\ local' = [p \in Procs |-> NoLocal]
    /\ stats' = UsageStats
    /\ UNCHANGED <<master_key, api_keys, usage, client>>

\* the steps of store_api_key, revoke_api_key, load_api_keys and of a
\* validator that turns the request down
Lifecycle(p) ==
    \/ BeginStore(p)
    \/ BeginStoreFirst(p)
    \/ WriteMasterKey(p)
    \/ ExecuteStore(p)
    \/ ExecuteFail(p)
    \/ ExecuteRevoke(p)
    \/ LoadLock(p)
    \/ LoadRow(p)
    \/ LoadFail(p)
    \/ LoadDone(p)
    \/ ReadLock(p)
    \/ Denied(p)

\* the key lifecycle: the operations of auth.rs as the HTTP layer calls them
Next ==
    \/ \E p \in Procs : Lifecycle(p) \/ Allowed(p)
    \/ Restart

\* the key lifecycle with a database that can fail at any statement, and
\* the handlers of the requests under /api
RequestNext ==
    \/ \E p \in Procs :
          Lifecycle(p) \/ LoadUnavailable(p) \/ RecordApiUsage(p)
    \/ Restart

\* the usage counters: the counting tasks of the requests under /api, and
\* the handlers of /usage-statistics and /reset-usage-statistics
StatsNext ==
    \/ \E p \in Procs :
          \/ CountLock(p)
          \/ CountAdd(p)
          \/ FirstLock(p)
          \/ SecondLockDeadlock(p)
          \/ SecondLockPanic(p)
    \/ Restart

\* one run of the server, with the threads that wait for the lock of
\* API_KEYS and the statement of revoke_api_key made explicit
LockNext ==
    \E p \in Procs :
        \/ Lifecycle(p)
        \/ Allowed(p)
        \/ ReadWait(p)
        \/ ReadGranted(p)
        \/ BeginRevoke(p)
        \/ ExecuteRevokeStatement(p)

\* a thread that can run does run: the loop of load_api_keys and the lookup
\* of is_key_allowed_access take no request or lock to go on. A lock that is
\* free again and again is granted to a thread that waits for it.
Fairness ==
    \A p \in Procs :
        /\ WF_vars(LoadRow(p) \/ LoadFail(p) \/ LoadDone(p))
        /\ WF_vars(Allowed(p) \/ Denied(p))
        /\ SF_vars(LoadLock(p))
        /\ SF_vars(ReadGranted(p))

Spec == Init /\ [][Next]_vars

LockSpec == Init /\ [][LockNext]_vars /\ Fairness

StatsSpec == Init /\ [][StatsNext]_vars

RequestSpec == Init /\ [][RequestNext]_vars


(* ------------------------------- claims --------------------------------- *)
\* the rows of api_keys, and those whose revoked_at is NULL
Rows == 1..Len(api_keys)
Active(i) == api_keys[i].revoked_at = Null
ActiveTokens == {TokenOf(api_keys[i].api_key) : i \in {j \in Rows : Active(j)}}
\* a thread runs revoke_api_key(s)
Revoking(s) == \E p \in Procs : op[p] = "revoke" /\ token[p] = s
\* no thread but p runs a handler
Alone(p) == \A q \in Procs \ {p} : pc[q] = "idle"

\* C1: once revoke_api_key(T) has returned Ok for an issued token T,
\* is_key_allowed_access(T) is false, and stays false whatever runs later.
C1_RevokedIsDenied ==
    \A id \in TokenIds :
        client[id] = "revoked" => ~is_key_allowed_access(Text(id))

\* C2: once store_api_key(T) has returned Ok, is_key_allowed_access(T) is
\* true for as long as no revoke_api_key(T) runs; stated for the tokens
\* whose record is still active.
C2_HeldIsAllowed ==
    \A id \in TokenIds :
        (/\ client[id] = "held"
         /\ Text(id) \in ActiveTokens
         /\ ~Revoking(Text(id)))
            => is_key_allowed_access(Text(id))

\* C3: when load_api_keys returns Ok, the keys of API_KEYS are exactly the
\* tokens of the rows it selected, the rows whose revoked_at was NULL.
C3_CacheIsActiveSet ==
    [][\A p \in Procs :
          LoadDone(p) =>
              DOMAIN API_KEYS' =
                  {TokenOf(local[p].rows[j].api_key) :
                       j \in 1..Len(local[p].rows)}]_vars

\* C4: when a row fails to decode or decrypt, load_api_keys returns the
\* error and API_KEYS is what it was before the call.
C4_FailedLoadKeepsCache ==
    [][\A p \in Procs : LoadFail(p) => API_KEYS' = before]_vars

\* C5: while a thread holds the read guard of is_key_allowed_access no
\* reload is between its first and its last insertion, and no two reloads
\* run at once: a check reads the map as it was before a reload or after it.
C5_ReloadExcludesChecks ==
    /\ \A p, q \in Procs :
          pc[p] = "is_key_allowed_access" => pc[q] # "load_rows"
    /\ \A p, q \in Procs :
          pc[p] = "load_rows" /\ pc[q] = "load_rows" => p = q

\* a reload has inserted some of its rows, not yet all, while the other
\* thread is free to take a request
C5_Witness ==
    \E p \in Procs :
        /\ pc[p] = "load_rows"
        /\ 0 < local[p].read
        /\ local[p].read < Len(local[p].rows)
        /\ DOMAIN API_KEYS # DOMAIN before
        /\ Alone(p)

\* C6: revoke_api_key(T) for a token T that has no active record returns Ok
\* and leaves is_key_allowed_access(U) as it was for every other token U.
C6_RevokeUnknownChangesNothing ==
    [][\A p \in Procs :
          (/\ LoadDone(p) \/ LoadFail(p)
           /\ op[p] = "revoke"
           /\ token[p] \in TokenStrings \ ActiveTokens
           /\ Alone(p))
              => /\ LoadDone(p)
                 /\ \A U \in TokenStrings \ {token[p]} :
                       (U \in DOMAIN API_KEYS') = (U \in DOMAIN before)]_vars

\* C7: when the server has (re)started, is_key_allowed_access(T) is true for
\* every token T that has an active record.
C7_LoadedAtStartup ==
    [][Restart => \A T \in ActiveTokens : T \in DOMAIN API_KEYS']_vars

\* C8: the master key, once persisted, is never overwritten, so that every
\* call of get_or_create_master_key returns the same key.
C8_OneMasterKey ==
    [][master_key # NoFile => master_key' = master_key]_vars

\* C9: no row of api_keys or usage holds the plaintext of an issued token.
C9_NoPlaintextStored ==
    \A i \in Rows :
        LET T == TokenOf(api_keys[i].api_key)
        IN  /\ \A u \in usage : u.api_key # T
            /\ \A j \in Rows : api_keys[j].api_key # T /\ api_keys[j].salt # T

\* C10: a row is inserted with revoked_at NULL, no row is removed, and a
\* revoked_at that is not NULL never becomes NULL again.
C10_RevocationIsTerminal ==
    [][/\ Len(api_keys') >= Len(api_keys)
       /\ \A i \in Rows :
             api_keys[i].revoked_at # Null => api_keys'[i].revoked_at # Null
       /\ \A i \in (Len(api_keys) + 1)..Len(api_keys') :
             api_keys'[i].revoked_at = Null]_vars

\* a record is revoked, a later one is active, and a reload is running
C10_Witness ==
    /\ \E i, j \in Rows : i < j /\ ~Active(i) /\ Active(j)
    /\ \E p \in Procs : pc[p] = "load_rows"

\* the statement of the call thread p runs has changed api_keys: the row of
\* its token is inserted, or a row matches the string it revokes
Written(p) ==
    IF op[p] = "store"
    THEN \E i \in Rows : TokenOf(api_keys[i].api_key) = token[p]
    ELSE \E i \in Rows : api_keys[i].api_key = token[p]

\* C11: when store_api_key or revoke_api_key returns an error, its statement
\* has not changed api_keys and API_KEYS is what it was before the call
\* touched it. (The other half, Ok only after the statement and a complete
\* reload, is the order of the steps.)
C11_NoPartialState ==
    [][\A p \in Procs :
          (ExecuteFail(p) \/ LoadUnavailable(p) \/ LoadFail(p))
              => /\ ~Written(p)
                 /\ API_KEYS' = IF writer = p THEN before ELSE API_KEYS]_vars

\* C12: what encrypt(T, S) returned (the api_key of a row, S being its salt)
\* is decrypted to T by decrypt(_, S), which reads the master key anew.
C12_RoundTrip ==
    \A i \in Rows :
        decrypt(KeyOf(master_key, Null), api_keys[i].api_key,
                BASE64_decode(api_keys[i].salt)) = TokenOf(api_keys[i].api_key)

\* the reload of thread p has a row ahead: rows.next() reads it from the
\* database and decrypt reads master.key
StorageReadAhead(p) ==
    pc[p] = "load_rows" /\ local[p].read < Len(local[p].rows)

\* C13: no check waits for the lock of API_KEYS while the thread that holds
\* it has a read of the database or of master.key ahead of it.
C13_CheckNeverWaitsOnStorage ==
    \A p, q \in Procs :
        ~(pc[q] = "read" /\ writer = p /\ StorageReadAhead(p))

\* C14: revoke_api_key(T) for a plaintext token T sets the revoked_at of
\* every row that was sealed from T, and changes no other row.
C14_RevokeMatchesToken ==
    [][\A p \in Procs :
          (ExecuteRevoke(p) /\ token'[p] \in TokenStrings)
              => \A i \in Rows :
                    IF TokenOf(api_keys[i].api_key) = token'[p]
                    THEN api_keys'[i].revoked_at \in Times
                    ELSE api_keys'[i] = api_keys[i]]_vars

\* C15: when the last of the running store_api_key and revoke_api_key
\* calls returns from its reload, the keys of API_KEYS are the tokens of the
\* active records.
C15_Converges ==
    [][\A p \in Procs :
          (LoadDone(p) /\ Alone(p)) => DOMAIN API_KEYS' = ActiveTokens']_vars

\* C16: when the statement of store_api_key or revoke_api_key fails, the
\* call returns without running load_api_keys: the thread is free again, no
\* success is answered, and api_keys and API_KEYS are as they were.
C16_StatementFailureAborts ==
    [][\A p \in Procs :
          ExecuteFail(p)
              => /\ pc'[p] = "idle"
                 /\ writer' # p
                 /\ client' = client
                 /\ api_keys' = api_keys
                 /\ API_KEYS' = API_KEYS]_vars

\* the INSERT of a store_api_key and the UPDATE of a revoke_api_key are
\* about to run, either can fail, and the cache holds a key
C16_Witness ==
    /\ DOMAIN API_KEYS # {}
    /\ \E p, q \in Procs :
          /\ pc[p] = "execute" /\ op[p] = "store"
          /\ pc[q] = "execute" /\ op[q] = "revoke"

\* the tokens store_api_key has inserted a record for
Stored == {TokenOf(api_keys[i].api_key) : i \in Rows}

\* C17: every key of API_KEYS is the token of a record of api_keys, so no
\* token that was never stored is allowed; and a check, from taking the read
\* guard to its answer, leaves API_KEYS as it is.
C17_NoFalseAuthorization ==
    /\ [](DOMAIN API_KEYS \subseteq Stored)
    /\ [][\A p \in Procs :
             (ReadLock(p) \/ Allowed(p) \/ Denied(p))
                 => API_KEYS' = API_KEYS]_vars

\* a check of a token that was never stored holds the read guard, while the
\* cache holds the token of a record
C17_Witness ==
    \E p \in Procs :
        /\ pc[p] = "is_key_allowed_access"
        /\ token[p] \notin Stored
        /\ DOMAIN API_KEYS # {}

\* C18: while the server runs, no step of a store_api_key, revoke_api_key,
\* load_api_keys or is_key_allowed_access call takes a key out of API_KEYS: a
\* token that was allowed once is allowed until the process ends.
C18_CacheNeverShrinks ==
    [][(\E p \in Procs : Lifecycle(p) \/ Allowed(p))
          => DOMAIN API_KEYS \subseteq DOMAIN API_KEYS']_vars

\* a reload has returned, no call is running, and the cache still holds a
\* token whose record is revoked
C18_Witness ==
    /\ \A p \in Procs : pc[p] = "idle"
    /\ \E T \in DOMAIN API_KEYS : T \in Stored \ ActiveTokens

C20_StatisticsTerminate ==
    \A p \in Procs :
        /\ pc[p] = "deadlock" => stats.to_fahrenheit.holder # p
        /\ ~stats.to_fahrenheit.poisoned

=============================================================================
